---------------------------- MODULE Spec2Model ----------------------------
(***************************************************************************)
(* A model of scikits.bvp1lg.colnew: solve(), _colnew_solve() and the      *)
(* _colnew_enter()/_colnew_exit() bracket that makes the COLNEW kernel     *)
(* re-entrant.  Floating point values are modelled by integers (points of  *)
(* a grid); the kernel itself is external and is modelled by what it may   *)
(* write and return.  is_complex is not modelled (complex_adapter is not   *)
(* part of the sources at hand); the model covers is_complex = False.      *)
(***************************************************************************)
EXTENDS Integers, Sequences, FiniteSets, TLC

VARIABLES
    colnew_depth,   \* _colnew_depth
    colnew_stack,   \* _colnew_stack: a sequence of saved COMMON contents
    commons,        \* the contents of the nine COMMON blocks of the kernel
    frames,         \* the solve() calls in flight, outermost first
    done,           \* the solve() call that finished last
    long64          \* whether the build's C long has 64 bits

vars == <<colnew_depth, colnew_stack, commons, frames, done, long64>>

---------------------------------------------------------------------------
(* Bounds of the model.                                                    *)

MaxDepth == 3       \* solve() calls in flight at once
MaxWord == 1        \* the contents of a COMMON block range over 0..MaxWord
MaxMesh == 3        \* maximum_mesh_size ranges over -1..MaxMesh (and two large values)
MaxPoint == 2       \* boundary points and tolerances range over -1..MaxPoint
MaxOutMesh == 2     \* subintervals of a mesh the kernel returns

---------------------------------------------------------------------------
(* Values.                                                                 *)

None == <<>>
Some(x) == <<x>>
IsNone(o) == o = <<>>

MaxInt32 == 2147483647
Uninit == -1        \* a cell of np.empty() nobody has written yet

Blocks == <<"colapr", "colbas", "colest", "colloc", "colmsh",
            "colnln", "colord", "colout", "colsid">>

Range(s) == {s[i] : i \in DOMAIN s}

RECURSIVE SumRange(_, _, _)
SumRange(s, lo, hi) ==
    IF lo > hi THEN 0
    ELSE IF lo = hi THEN s[lo]
    ELSE LET mid == (lo + hi) \div 2
         IN  SumRange(s, lo, mid) + SumRange(s, mid + 1, hi)

Sum(s) == SumRange(s, 1, Len(s))

SeqMax(s) == CHOOSE x \in Range(s) : \A i \in DOMAIN s : s[i] <= x
SeqMin(s) == CHOOSE x \in Range(s) : \A i \in DOMAIN s : x <= s[i]

(* list.sort() and ndarray.sort(): the ascending arrangement of s, whose   *)
(* r-th element is the value x with fewer than r elements below it and at  *)
(* least r elements not above it.                                          *)
Sorted(s) ==
    [r \in 1..Len(s) |->
        CHOOSE x \in Range(s) :
            /\ Cardinality({i \in DOMAIN s : s[i] < x}) < r
            /\ r <= Cardinality({i \in DOMAIN s : s[i] <= x})]

IsAscending(s) == \A i \in 1..(Len(s) - 1) : s[i] <= s[i + 1]

(* np.unique(): the distinct values, ascending                             *)
Unique(s) ==
    [r \in 1..Cardinality(Range(s)) |->
        CHOOSE x \in Range(s) : Cardinality({y \in Range(s) : y < x}) = r - 1]

Take(s, n) == SubSeq(s, 1, IF n < 0 THEN 0 ELSE IF n > Len(s) THEN Len(s) ELSE n)

Repeat(x, n) == [i \in 1..n |-> x]

SeqsUpTo(S, n) == UNION {[1..m -> S] : m \in 0..n}

---------------------------------------------------------------------------
(* Sizes.  A workspace length is maximum_mesh_size * nsize, a Python int   *)
(* of any magnitude; it is kept as the pair of its factors so that lengths *)
(* beyond 32 bits stay exact.                                              *)

Size(m, unit) == [m |-> m, unit |-> unit]
SizeFits(s) == IF s.m <= 0 THEN TRUE ELSE s.unit <= MaxInt32 \div s.m
SizeVal(s) == s.m * s.unit
SizeAtLeast(s, n) == IF SizeFits(s) THEN SizeVal(s) >= n ELSE TRUE

Byte(x, i) == (x \div (256 ^ i)) % 256

(* The low 32 bits of a * b, as a signed number, for 0 <= a, b < 2^31:     *)
(* the product is summed byte by byte, so that no intermediate value       *)
(* exceeds 32 bits.                                                        *)
Low32(a, b) ==
    LET t0 == Byte(a, 0) * Byte(b, 0)
        t1 == Byte(a, 0) * Byte(b, 1) + Byte(a, 1) * Byte(b, 0)
        t2 == Byte(a, 0) * Byte(b, 2) + Byte(a, 1) * Byte(b, 1)
              + Byte(a, 2) * Byte(b, 0)
        t3 == Byte(a, 0) * Byte(b, 3) + Byte(a, 1) * Byte(b, 2)
              + Byte(a, 2) * Byte(b, 1) + Byte(a, 3) * Byte(b, 0)
        low == t0 + (t1 % 256) * 256
        high == (low \div 65536) + (t1 \div 256) + t2 + (t3 % 256) * 256
        lo16 == low % 65536
        hi16 == high % 65536
    IN  IF hi16 >= 32768
        THEN (hi16 - 65536) * 65536 + lo16
        ELSE hi16 * 65536 + lo16

(* The value an np.int32 cell takes when the length s is stored into it    *)
(* and the conversion goes through a 64-bit C long: the low 32 bits.       *)
Int32(s) == IF SizeFits(s) THEN SizeVal(s) ELSE Low32(s.m, s.unit)

---------------------------------------------------------------------------
(* Workspace buffers: np.empty([n], dtype).  data is the written prefix;   *)
(* every cell not in it, and every Uninit cell of it, is uninitialised.    *)

Buffer(size) == [len |-> size, data |-> <<>>]

Pad(d, n) == IF Len(d) >= n THEN d ELSE d \o Repeat(Uninit, n - Len(d))

(* buf[off:off+len(src)] = src.  numpy clips the slice to the buffer and   *)
(* raises ValueError when src (of more than one element) does not fit it.  *)
WriteFails(buf, off, src) ==
    Len(src) > 1 /\ ~SizeAtLeast(buf.len, off + Len(src))

WriteAt(buf, off, src) ==
    IF ~SizeAtLeast(buf.len, off + Len(src)) THEN buf
    ELSE LET n == IF Len(buf.data) > off + Len(src)
                  THEN Len(buf.data) ELSE off + Len(src)
             base == Pad(buf.data, n)
         IN  [buf EXCEPT !.data =
                 [i \in 1..n |-> IF i > off /\ i <= off + Len(src)
                                 THEN src[i - off] ELSE base[i]]]

---------------------------------------------------------------------------
(* class Solution.                                                         *)

NoSolution == [ncomp |-> 0, mstar |-> 0, nmesh |-> 0,
               ispace |-> <<>>, fspace |-> <<>>]

(* Solution.__init__(ispace, fspace), given the contents of the buffers    *)
Solution(idata, fdata) ==
    [ncomp |-> idata[3],
     mstar |-> idata[4],
     nmesh |-> idata[1] + 1,
     ispace |-> Take(idata, 7 + idata[3]),
     fspace |-> Take(fdata, idata[7])]

---------------------------------------------------------------------------
(* The locals of one _colnew_solve() call, and the objects of the caller   *)
(* it refers to.                                                           *)

Raise(e, exc, why) == [e EXCEPT !.exc = exc, !.why = why]

InitEnv(p, l64) ==
    [p |-> p,
     long64 |-> l64,
     bp |-> p.bp,                 \* the caller's boundary_points object
     tolobj |-> p.tol,            \* the caller's tolerances object
     ncomp |-> 0, mstar |-> 0,
     colloc |-> p.colloc,         \* collocation_points
     extra |-> p.extra,           \* extra_fixed_points
     tol |-> p.tol,               \* tolerances
     left |-> p.left, right |-> p.right,
     k |-> 0,
     ispace |-> Buffer(Size(0, 0)), fspace |-> Buffer(Size(0, 0)),
     zeta |-> <<>>, fixpnt |-> <<>>,
     verbosity |-> p.verbosity,
     ltol |-> <<>>, tolv |-> <<>>,
     ipar |-> <<>>,
     guess_func |-> "dummy_guess",
     guessobj |-> p.guess.sol,    \* the caller's initial_guess object
     shared |-> {},               \* the buffers that are buffers of guessobj
     mesh |-> p.mesh,             \* initial_mesh
     exc |-> "", why |-> "",
     pos |-> 0, calls |-> 0, iflag |-> 0,
     result |-> NoSolution]

(* lines 378-393 *)
CheckDegrees(e) ==
    LET degrees == e.p.degrees
        ncomp == Len(degrees)
        mstar == Sum(degrees)
        e1 == [e EXCEPT !.ncomp = ncomp, !.mstar = mstar]
    IN  IF \E i \in DOMAIN degrees : degrees[i] <= 0 \/ degrees[i] > 4
        THEN Raise(e1, "ValueError", "Invalid value for degrees")
        ELSE IF ncomp <= 0 \/ mstar <= 0
        THEN Raise(e1, "ValueError", "Invalid value for degrees: no equations")
        ELSE IF ncomp > 256
        THEN Raise(e1, "ValueError", "Too many equations")
        ELSE IF mstar > 512
        THEN Raise(e1, "ValueError", "Too many unknown variables")
        ELSE e1

(* lines 395-412 *)
Defaults(e) ==
    LET bad == ~IsNone(e.colloc)
               /\ (e.colloc[1] < SeqMax(e.p.degrees) \/ e.colloc[1] > 7)
        colloc == IF IsNone(e.colloc) THEN 0 ELSE e.colloc[1]
        extra == IF IsNone(e.extra) THEN <<>> ELSE e.extra[1]
        tol == IF IsNone(e.tol)
               THEN [kind |-> "float64", v |-> Repeat(0, e.mstar)]
               ELSE e.tol[1]
        e1 == [e EXCEPT !.colloc = colloc, !.extra = extra, !.tol = tol]
    IN  IF bad
        THEN Raise(e, "ValueError", "Invalid number of collocation points")
        ELSE IF (IsNone(e.left) \/ IsNone(e.right)) /\ e.bp.v = <<>>
        THEN Raise(e1, "ValueError", "min() arg is an empty sequence")
        ELSE [e1 EXCEPT
                !.left = IF IsNone(e.left) THEN SeqMin(e.bp.v) ELSE e.left[1],
                !.right = IF IsNone(e.right) THEN SeqMax(e.bp.v) ELSE e.right[1]]

(* lines 414-424: the two sizes, as maximum_mesh_size times the per-       *)
(* subinterval requirement                                                 *)
WorkspaceSizes(ncomp, mstar, collocation_points, maximum_mesh_size) ==
    LET k == collocation_points
        kd == k * ncomp
        kdm == kd + mstar
        nsizei == 3 + kdm
        nrec == 0
        nsizef == 4 + 3 * mstar + (5 + kd) * kdm + (2 * mstar - nrec) * 2 * mstar
    IN  [nispace |-> Size(maximum_mesh_size, nsizei),
         nfspace |-> Size(maximum_mesh_size, nsizef)]

(* a variant of lines 426-429 that takes the buffers of a prior Solution   *)
(* for workspace instead of new ones from np.empty                         *)
AllocateWorkspaceShared(e) ==
    LET w == WorkspaceSizes(e.ncomp, e.mstar, e.colloc, e.p.M)
        g == e.p.guess
    IN  IF e.p.M < 0
        THEN Raise([e EXCEPT !.k = e.colloc], "ValueError",
                   "negative dimensions are not allowed")
        ELSE IF g.kind = "solution"
        THEN [e EXCEPT !.k = e.colloc,
                       !.ispace = [len |-> Size(Len(g.sol.ispace), 1),
                                   data |-> g.sol.ispace],
                       !.fspace = [len |-> Size(Len(g.sol.fspace), 1),
                                   data |-> g.sol.fspace],
                       !.shared = {"ispace", "fspace"}]
        ELSE [e EXCEPT !.k = e.colloc,
                       !.ispace = Buffer(w.nispace),
                       !.fspace = Buffer(w.nfspace)]

(* lines 414-429 *)
AllocateWorkspace(e) ==
    LET w == WorkspaceSizes(e.ncomp, e.mstar, e.colloc, e.p.M)
    IN  IF e.p.M < 0
        THEN Raise([e EXCEPT !.k = e.colloc], "ValueError",
                   "negative dimensions are not allowed")
        ELSE [e EXCEPT !.k = e.colloc,
                       !.ispace = Buffer(w.nispace),
                       !.fspace = Buffer(w.nfspace)]

(* np.asarray(boundary_points, np.float64): the array itself when it is    *)
(* one of that type already, otherwise a fresh copy                        *)
AsArrayAliases(obj) == obj.kind = "float64"

(* lines 431-443 *)
CheckBoundaryPoints(e) ==
    IF Len(e.bp.v) # e.mstar
    THEN Raise(e, "ValueError", "Invalid number of boundary points")
    ELSE LET zeta == Sorted(e.bp.v)
             bp == IF AsArrayAliases(e.bp)
                   THEN [e.bp EXCEPT !.v = zeta] ELSE e.bp
             e1 == [e EXCEPT !.zeta = zeta, !.bp = bp]
         IN  IF ~(\A i \in DOMAIN zeta : zeta[i] = bp.v[i])
             THEN Raise(e1, "ValueError", "Invalid ordering of boundary points")
             ELSE IF ~(\A i \in DOMAIN zeta :
                           zeta[i] >= e.left /\ zeta[i] <= e.right)
             THEN Raise(e1, "ValueError",
                        "Some boundary points outside range [left, right]")
             ELSE e1

(* a variant of lines 445-450 that keeps the points equal to left or right *)
FixedPointsClosed(e) ==
    LET all == Sorted(e.bp.v \o e.extra)
        inside == SelectSeq(all, LAMBDA x : x >= e.left /\ x <= e.right)
    IN  [e EXCEPT !.fixpnt = Unique(inside)]

(* lines 445-450 *)
FixedPoints(e) ==
    LET all == Sorted(e.bp.v \o e.extra)
        inside == SelectSeq(all, LAMBDA x : x > e.left /\ x < e.right)
    IN  [e EXCEPT !.fixpnt = Unique(inside)]

(* lines 452-457 *)
ClampVerbosity(e) ==
    [e EXCEPT !.verbosity = IF @ < 0 THEN 0 ELSE IF @ > 2 THEN 2 ELSE @]

(* a variant of line 465 that keeps the zero tolerances too *)
WhereNonNegative(v) ==
    SelectSeq([i \in 1..Len(v) |-> i - 1], LAMBDA j : v[j + 1] >= 0)

(* line 465: np.where(tolerances > 0)[0], 0-based *)
WherePositive(v) ==
    SelectSeq([i \in 1..Len(v) |-> i - 1], LAMBDA j : v[j + 1] > 0)

(* lines 459-467 *)
Tolerances(e) ==
    IF Len(e.tol.v) # e.mstar
    THEN Raise(e, "ValueError", "Invalid number of tolerances")
    ELSE LET ltol == WherePositive(e.tol.v)
         IN  [e EXCEPT !.ltol = [i \in DOMAIN ltol |-> ltol[i] + 1],
                       !.tolv = [i \in DOMAIN ltol |-> e.tol.v[ltol[i] + 1]]]

(* lines 469-486.  A length beyond 32 bits is stored into the np.int32     *)
(* vector truncated when the C long has 64 bits and raises OverflowError   *)
(* when it has 32.                                                         *)
BuildIpar(e) ==
    IF ~e.long64 /\ (~SizeFits(e.fspace.len) \/ ~SizeFits(e.ispace.len))
    THEN Raise(e, "OverflowError", "Python int too large to convert to C long")
    ELSE [e EXCEPT
            !.ipar = <<1 - (IF e.p.linear THEN 1 ELSE 0),
                       e.colloc,
                       10,
                       Len(e.ltol),
                       Int32(e.fspace.len),
                       Int32(e.ispace.len),
                       1 - e.verbosity,
                       0,
                       0,
                       e.p.regularity,
                       Len(e.fixpnt)>>,
            !.fixpnt = IF Len(e.fixpnt) = 0 THEN <<0>> ELSE e.fixpnt]

SetIpar(e, i, x) == [e EXCEPT !.ipar[i + 1] = x]

(* a variant of lines 488-520 that tests callable(initial_guess) first: a   *)
(* Solution has __call__ and is taken for a guess function                 *)
InitialGuessCallableFirst(e) ==
    LET g == e.p.guess
    IN  IF g.kind \in {"callable", "solution"}
        THEN SetIpar([e EXCEPT !.guess_func = "initial_guess"], 8, 1)
        ELSE IF g.kind = "none"
        THEN SetIpar(e, 8, 0)
        ELSE Raise(e, "ValueError", "Unknown initial_guess")

(* a variant of lines 488-520 without the test of                          *)
(* coarsen_initial_guess_mesh in the branch for an initial_mesh            *)
InitialGuessNoCoarsenCheck(e) ==
    LET g == e.p.guess
    IN  IF g.kind = "solution"
        THEN IF e.mesh.kind = "none"
             THEN IF WriteFails(e.ispace, 0, g.sol.ispace)
                     \/ WriteFails(e.fspace, 0, g.sol.fspace)
                  THEN Raise(e, "ValueError", "could not broadcast input array")
                  ELSE LET ispace == WriteAt(e.ispace, 0, g.sol.ispace)
                           fspace == WriteAt(e.fspace, 0, g.sol.fspace)
                           e1 == [e EXCEPT !.ispace = ispace, !.fspace = fspace]
                       IN  IF ~SizeAtLeast(ispace.len, 1)
                           THEN Raise(e1, "IndexError", "index 0 is out of bounds")
                           ELSE SetIpar(SetIpar(e1, 2,
                                    IF ispace.data = <<>> THEN Uninit
                                    ELSE ispace.data[1]),
                                    8, IF e.p.coarsen THEN 3 ELSE 2)
             ELSE IF e.mesh.kind = "count"
             THEN Raise(e, "TypeError", "object of type 'int' has no len()")
             ELSE LET n == Len(e.mesh.v)
                  IN  IF WriteFails(e.ispace, n, g.sol.ispace)
                         \/ WriteFails(e.fspace, n, g.sol.fspace)
                      THEN Raise(e, "ValueError", "could not broadcast input array")
                      ELSE SetIpar(SetIpar(
                               [e EXCEPT !.ispace = WriteAt(@, n, g.sol.ispace),
                                         !.fspace = WriteAt(@, n, g.sol.fspace)],
                               8, 4), 2, n - 1)
        ELSE IF g.kind = "callable"
        THEN SetIpar([e EXCEPT !.guess_func = "initial_guess"], 8, 1)
        ELSE IF g.kind = "none"
        THEN SetIpar(e, 8, 0)
        ELSE Raise(e, "ValueError", "Unknown initial_guess")

(* lines 488-520 *)
InitialGuess(e) ==
    LET g == e.p.guess
    IN  IF g.kind = "solution"
        THEN IF e.mesh.kind = "none"
             THEN IF WriteFails(e.ispace, 0, g.sol.ispace)
                     \/ WriteFails(e.fspace, 0, g.sol.fspace)
                  THEN Raise(e, "ValueError", "could not broadcast input array")
                  ELSE LET ispace == WriteAt(e.ispace, 0, g.sol.ispace)
                           fspace == WriteAt(e.fspace, 0, g.sol.fspace)
                           e1 == [e EXCEPT !.ispace = ispace, !.fspace = fspace]
                       IN  IF ~SizeAtLeast(ispace.len, 1)
                           THEN Raise(e1, "IndexError", "index 0 is out of bounds")
                           ELSE SetIpar(SetIpar(e1, 2,
                                    IF ispace.data = <<>> THEN Uninit
                                    ELSE ispace.data[1]),
                                    8, IF e.p.coarsen THEN 3 ELSE 2)
             ELSE IF e.p.coarsen
             THEN Raise(e, "ValueError",
                        "Initial mesh and guess both specified: cannot coarsen")
             ELSE IF e.mesh.kind = "count"
             THEN Raise(e, "TypeError", "object of type 'int' has no len()")
             ELSE LET n == Len(e.mesh.v)
                  IN  IF WriteFails(e.ispace, n, g.sol.ispace)
                         \/ WriteFails(e.fspace, n, g.sol.fspace)
                      THEN Raise(e, "ValueError", "could not broadcast input array")
                      ELSE SetIpar(SetIpar(
                               [e EXCEPT !.ispace = WriteAt(@, n, g.sol.ispace),
                                         !.fspace = WriteAt(@, n, g.sol.fspace)],
                               8, 4), 2, n - 1)
        ELSE IF g.kind = "callable"
        THEN SetIpar([e EXCEPT !.guess_func = "initial_guess"], 8, 1)
        ELSE IF g.kind = "none"
        THEN SetIpar(e, 8, 0)
        ELSE Raise(e, "ValueError", "Unknown initial_guess")

NoMesh == [kind |-> "none", n |-> 0, v |-> <<>>]

(* lines 522-542 *)
InitialMesh(e) ==
    LET e1 == IF e.mesh.kind = "count"
              THEN [SetIpar(SetIpar(e, 2, e.mesh.n), 7, 0) EXCEPT !.mesh = NoMesh]
              ELSE e
    IN  IF e1.mesh.kind # "none"
        THEN IF WriteFails(e1.fspace, 0, e1.mesh.v)
             THEN Raise(e1, "ValueError", "could not broadcast input array")
             ELSE SetIpar(SetIpar(
                      [e1 EXCEPT !.fspace = WriteAt(@, 0, e1.mesh.v)],
                      2, Len(e1.mesh.v) - 1),
                      7, IF ~e.p.adaptive THEN 2 ELSE 1)
        ELSE IF ~e.p.adaptive
        THEN Raise(SetIpar(e1, 7, 0), "ValueError",
                   "Cannot disable mesh selection when no initial_mesh given")
        ELSE SetIpar(e1, 7, 0)

(* lines 608-634 *)
CheckStatus(e) ==
    IF e.iflag = 1
    THEN [e EXCEPT !.result = Solution(e.ispace.data, e.fspace.data)]
    ELSE IF e.iflag = 0
    THEN Raise(e, "SingularCollocationMatrix", "Singular collocation matrix in COLNEW")
    ELSE IF e.iflag = -1
    THEN Raise(e, "TooManySubintervals", "Out of storage space in COLNEW")
    ELSE IF e.iflag = -2
    THEN Raise(e, "NoConvergence", "Nonlinear iteration did not converge in COLNEW")
    ELSE IF e.iflag = -3
    THEN Raise(e, "ValueError", "Invalid input data for COLNEW")
    ELSE Raise(e, "RuntimeError", "Unknown error in COLNEW")

---------------------------------------------------------------------------
(* _colnew_solve(): its sections in the order of the source.  "kernel" is  *)
(* the call of _colnew.colnew (lines 598-606), during which the callbacks  *)
(* of the caller run.                                                      *)

(* a variant of _colnew_solve that checks initial_mesh after the kernel call *)
PipelineMeshAfterKernel ==
    <<"degrees", "defaults", "workspace", "boundary", "fixpnt", "verbosity",
      "tolerances", "ipar", "guess", "kernel", "mesh", "status">>

Pipeline ==
    <<"degrees", "defaults", "workspace", "boundary", "fixpnt", "verbosity",
      "tolerances", "ipar", "guess", "mesh", "kernel", "status">>

Section(name, e) ==
    CASE name = "degrees" -> CheckDegrees(e)
      [] name = "defaults" -> Defaults(e)
      [] name = "workspace" -> AllocateWorkspace(e)
      [] name = "boundary" -> CheckBoundaryPoints(e)
      [] name = "fixpnt" -> FixedPoints(e)
      [] name = "verbosity" -> ClampVerbosity(e)
      [] name = "tolerances" -> Tolerances(e)
      [] name = "ipar" -> BuildIpar(e)
      [] name = "guess" -> InitialGuess(e)
      [] name = "mesh" -> InitialMesh(e)
      [] name = "status" -> CheckStatus(e)

(* numpy arrays are objects: what is written to a workspace buffer is     *)
(* written to the prior Solution too where the two are one array.  The     *)
(* buffers of np.empty (lines 428-429) are new, so shared is empty.        *)
Store(e) ==
    IF e.shared = {} THEN e
    ELSE [e EXCEPT
            !.guessobj.ispace =
                IF "ispace" \in e.shared THEN e.ispace.data ELSE @,
            !.guessobj.fspace =
                IF "fspace" \in e.shared THEN e.fspace.data ELSE @]

(* Runs the sections from the i-th on, up to the kernel call, a raise or   *)
(* the return.                                                             *)
RECURSIVE RunFrom(_, _)
RunFrom(e, i) ==
    IF i > Len(Pipeline) THEN [e EXCEPT !.pos = i]
    ELSE IF Pipeline[i] = "kernel" THEN [e EXCEPT !.pos = i, !.calls = @ + 1]
    ELSE LET e1 == Store(Section(Pipeline[i], e))
         IN  IF e1.exc # "" THEN [e1 EXCEPT !.pos = i] ELSE RunFrom(e1, i + 1)

InKernel(e) == e.exc = "" /\ e.pos \in DOMAIN Pipeline /\ Pipeline[e.pos] = "kernel"

---------------------------------------------------------------------------
(* The re-entrancy bracket.                                                *)

(* a variant of _colnew_enter that takes a snapshot at the outermost call too *)
ColnewEnterAlwaysPush(depth, stack, coms) ==
    [depth |-> depth + 1,
     stack |-> Append(stack, [j \in DOMAIN Blocks |-> coms[Blocks[j]]])]

(* lines 643-664 *)
ColnewEnter(depth, stack, coms) ==
    IF depth + 1 = 1
    THEN [depth |-> depth + 1, stack |-> stack]
    ELSE [depth |-> depth + 1,
          stack |-> Append(stack, [j \in DOMAIN Blocks |-> coms[Blocks[j]]])]

(* a variant of _colnew_exit that pops the snapshot without writing it back *)
ColnewExitNoRestore(depth, stack, coms) ==
    IF depth - 1 = 0 \/ stack = <<>>
    THEN [depth |-> depth - 1, stack |-> stack, commons |-> coms]
    ELSE [depth |-> depth - 1,
          stack |-> SubSeq(stack, 1, Len(stack) - 1),
          commons |-> coms]

(* lines 666-679; an empty stack, which pop() refuses, is left as it is    *)
ColnewExit(depth, stack, coms) ==
    IF depth - 1 = 0 \/ stack = <<>>
    THEN [depth |-> depth - 1, stack |-> stack, commons |-> coms]
    ELSE LET entry == stack[Len(stack)]
         IN  [depth |-> depth - 1,
              stack |-> SubSeq(stack, 1, Len(stack) - 1),
              commons |-> [b \in DOMAIN coms |->
                              LET j == CHOOSE i \in DOMAIN Blocks : Blocks[i] = b
                              IN  entry[j]]]

(* a variant of solve() that exits only after a normal return *)
SolveNoFinally(exc, depth, stack, coms) ==
    IF exc = "" THEN ColnewExitNoRestore(depth, stack, coms)
    ELSE [depth |-> depth, stack |-> stack, commons |-> coms]

(* lines 323-343: the finally clause of solve() *)
SolveFinally(exc, depth, stack, coms) == ColnewExit(depth, stack, coms)

---------------------------------------------------------------------------
(* The kernel, as far as solve() depends on it: on success (iflag = 1) it  *)
(* has filled the start of both buffers; solve() reads ispace[0], [2], [3] *)
(* and [6] of it.  n is the number of subintervals of the final mesh.      *)

KernelIspace(e, n) ==
    <<n, 0, e.ncomp, e.mstar, 0, 0, 2 * n + 1>> \o e.p.degrees

KernelFspace(n) == [i \in 1..(2 * n + 1) |-> IF i <= n + 1 THEN i - 1 ELSE 9]

KernelCanSucceed(e, n) ==
    /\ SizeAtLeast(e.ispace.len, 7 + e.ncomp)
    /\ SizeAtLeast(e.fspace.len, 2 * n + 1)

StatusCodes == {-4, -3, -2, -1, 0, 1, 2, 7}

(* The sets of COMMON blocks one step of a kernel run overwrites: a run    *)
(* uses all of them.                                                       *)
KernelWrites == {{Blocks[j] : j \in DOMAIN Blocks}}

---------------------------------------------------------------------------
(* Problem descriptions: the arguments of solve().                         *)

List(v) == [kind |-> "list", v |-> v]
Array(v) == [kind |-> "float64", v |-> v]
Containers == {"list", "float64"}

NoGuess == [kind |-> "none", sol |-> NoSolution]
MeshCount(n) == [kind |-> "count", n |-> n, v |-> <<>>]
MeshList(v) == [kind |-> "list", n |-> 0, v |-> v]

BaseProblem ==
    [bp |-> List(<<0, 1>>), degrees |-> <<2>>,
     left |-> None, right |-> None,
     colloc |-> None, tol |-> None, M |-> 2,
     guess |-> NoGuess, coarsen |-> TRUE, mesh |-> NoMesh, adaptive |-> TRUE,
     extra |-> None, linear |-> FALSE, verbosity |-> 0, regularity |-> 0]

Points == -1..MaxPoint

BoundaryInputs ==
    {[BaseProblem EXCEPT !.bp = [kind |-> c, v |-> v], !.degrees = d,
                         !.left = l, !.right = r] :
        c \in Containers, v \in SeqsUpTo(Points, 3),
        d \in {<<2>>, <<1, 1>>}, l \in {None, Some(0)}, r \in {None, Some(1)}}

DegreeInputs ==
    {[BaseProblem EXCEPT !.degrees = d, !.bp = List(Repeat(0, Sum(d))),
                         !.colloc = c] :
        d \in SeqsUpTo(0..5, 2) \cup {Repeat(1, 257), Repeat(4, 129)},
        c \in {None, Some(0), Some(3), Some(8)}}

LargeMesh == {414, 100000000}

SizeInputs ==
    {[BaseProblem EXCEPT !.degrees = d, !.bp = List(Repeat(0, Sum(d))),
                         !.colloc = c, !.M = m] :
        d \in {<<1>>, <<2>>, <<1, 2>>},
        c \in {None} \cup {Some(k) : k \in 1..7},
        m \in (-1..MaxMesh) \cup LargeMesh}
    \cup
    {[BaseProblem EXCEPT !.degrees = Repeat(2, 256),
                         !.bp = List(Repeat(0, 512)),
                         !.colloc = c, !.M = m] :
        c \in {Some(7)}, m \in {413, 414}}

ToleranceInputs ==
    {[BaseProblem EXCEPT !.degrees = d, !.bp = List(Repeat(0, Sum(d))),
                         !.tol = Some([kind |-> c, v |-> v])] :
        d \in {<<2>>, <<1, 2>>}, c \in Containers, v \in SeqsUpTo(Points, 3)}

FixedPointInputs ==
    {[BaseProblem EXCEPT !.bp = List(v), !.extra = x, !.left = l, !.right = r] :
        v \in {<<0, 0>>, <<0, 1>>, <<0, 2>>, <<1, 1>>},
        x \in {None} \cup {Some(s) : s \in SeqsUpTo(Points, 2)},
        l \in {None, Some(-1)}, r \in {None, Some(2)}}

(* Solutions of earlier solves of the base problem.                        *)
PriorSolutions ==
    {Solution(<<n, 0, 1, 2, 0, 0, 2 * n + 1, 2>>, KernelFspace(n)) :
        n \in 1..MaxOutMesh}

Guesses ==
    {NoGuess, [kind |-> "callable", sol |-> NoSolution],
     [kind |-> "other", sol |-> NoSolution]}
    \cup {[kind |-> "solution", sol |-> s] : s \in PriorSolutions}

Meshes == {NoMesh, MeshCount(1), MeshList(<<0, 1>>), MeshList(<<0, 1, 2>>)}

GuessInputs ==
    {[BaseProblem EXCEPT !.guess = g, !.coarsen = c, !.mesh = m,
                         !.adaptive = a, !.M = mm] :
        g \in Guesses, c \in BOOLEAN, m \in Meshes, a \in BOOLEAN,
        mm \in 1..MaxMesh}

Inputs ==
    BoundaryInputs \cup DegreeInputs \cup SizeInputs \cup ToleranceInputs
    \cup GuessInputs \cup FixedPointInputs

(* The problems solved from inside callbacks: one accepted, one rejected.  *)
NestInputs ==
    {BaseProblem, [BaseProblem EXCEPT !.bp = List(<<1, 0>>)]}

---------------------------------------------------------------------------
(* State.                                                                  *)

NoDone ==
    [valid |-> FALSE, env |-> InitEnv(BaseProblem, TRUE), nested |-> FALSE,
     commonsAtEnter |-> <<>>, commonsAtExit |-> <<>>, commonsAfter |-> <<>>,
     depthBefore |-> 0, depthAfter |-> 0,
     stackBefore |-> <<>>, stackAfter |-> <<>>]

Init ==
    /\ colnew_depth = 0
    /\ colnew_stack = <<>>
    /\ commons = [b \in {Blocks[j] : j \in DOMAIN Blocks} |-> 0]
    /\ frames = <<>>
    /\ done = NoDone
    /\ long64 \in BOOLEAN

Top == frames[Len(frames)]

(* What solve() leaves behind when its _colnew_solve() call e ends, with   *)
(* the bracket entered at (depth0, stack0, coms0).                         *)
Finished(e, nested, depth0, stack0, coms0, x) ==
    [valid |-> TRUE, env |-> e, nested |-> nested,
     commonsAtEnter |-> coms0, commonsAtExit |-> commons,
     commonsAfter |-> x.commons,
     depthBefore |-> depth0, depthAfter |-> x.depth,
     stackBefore |-> stack0, stackAfter |-> x.stack]

(* solve(p), lines 323-343, up to the kernel call or to its end            *)
SolveBegin(p) ==
    /\ IF frames = <<>> THEN TRUE ELSE InKernel(Top.env)
    /\ LET n == ColnewEnter(colnew_depth, colnew_stack, commons)
           e == RunFrom(InitEnv(p, long64), 1)
       IN  IF InKernel(e)
           THEN /\ frames' = Append(frames,
                                [env |-> e, nested |-> frames # <<>>,
                                 enterCommons |-> commons,
                                 enterDepth |-> colnew_depth,
                                 enterStack |-> colnew_stack])
                /\ colnew_depth' = n.depth
                /\ colnew_stack' = n.stack
                /\ done' = NoDone
                /\ UNCHANGED commons
           ELSE LET x == SolveFinally(e.exc, n.depth, n.stack, commons)
                IN  /\ colnew_depth' = x.depth
                    /\ colnew_stack' = x.stack
                    /\ commons' = x.commons
                    /\ done' = Finished(e, frames # <<>>, colnew_depth,
                                        colnew_stack, commons, x)
                    /\ UNCHANGED frames
    /\ UNCHANGED long64

(* The kernel run of the innermost solve overwrites COMMON blocks.         *)
KernelWrite(B, v) ==
    /\ frames # <<>> /\ InKernel(Top.env)
    /\ commons' = [b \in DOMAIN commons |-> IF b \in B THEN v ELSE commons[b]]
    /\ commons' # commons
    /\ UNCHANGED <<colnew_depth, colnew_stack, frames, done, long64>>

(* The innermost solve() ends with its _colnew_solve() call in state e.    *)
SolveEnd(e) ==
    LET x == SolveFinally(e.exc, colnew_depth, colnew_stack, commons)
    IN  /\ colnew_depth' = x.depth
        /\ colnew_stack' = x.stack
        /\ commons' = x.commons
        /\ frames' = SubSeq(frames, 1, Len(frames) - 1)
        /\ done' = Finished(e, Top.nested, Top.enterDepth, Top.enterStack,
                            Top.enterCommons, x)
        /\ UNCHANGED long64

(* _colnew.colnew returns iflag; lines 608-634 follow.                     *)
KernelReturn(iflag, n) ==
    /\ frames # <<>> /\ InKernel(Top.env)
    /\ IF iflag = 1 THEN KernelCanSucceed(Top.env, n) ELSE n = 1
    /\ LET e0 == IF iflag = 1
                 THEN Store([Top.env EXCEPT !.iflag = iflag,
                                 !.ispace.data = KernelIspace(Top.env, n),
                                 !.fspace.data = KernelFspace(n)])
                 ELSE [Top.env EXCEPT !.iflag = iflag]
           e == RunFrom(e0, e0.pos + 1)
       IN  IF InKernel(e)
           THEN /\ frames' = [frames EXCEPT ![Len(frames)].env = e]
                /\ UNCHANGED <<colnew_depth, colnew_stack, commons, done, long64>>
           ELSE SolveEnd(e)

(* A callback of the caller raises, and the exception leaves the kernel.   *)
CallbackRaise ==
    /\ frames # <<>> /\ InKernel(Top.env)
    /\ SolveEnd(Raise(Top.env, "CallbackError", "raised by a callback"))

(* The caller drops the outcome of the last solve.                         *)
Forget ==
    /\ frames = <<>> /\ done # NoDone
    /\ done' = NoDone
    /\ UNCHANGED <<colnew_depth, colnew_stack, commons, frames, long64>>

(* Nested solves: callbacks of a paused solve start further solves.        *)
Next ==
    \/ \E p \in NestInputs : Len(frames) < MaxDepth /\ SolveBegin(p)
    \/ \E B \in KernelWrites, v \in 0..MaxWord : KernelWrite(B, v)
    \/ \E iflag \in StatusCodes, n \in 1..MaxOutMesh : KernelReturn(iflag, n)
    \/ CallbackRaise

Spec == Init /\ [][Next]_vars

(* One solve at a time, over all the problem descriptions.                 *)
NextSolve ==
    \/ \E p \in Inputs : frames = <<>> /\ done = NoDone /\ SolveBegin(p)
    \/ Forget
    \/ \E iflag \in StatusCodes, n \in 1..MaxOutMesh : KernelReturn(iflag, n)
    \/ CallbackRaise

SpecSolve == Init /\ [][NextSolve]_vars

(* A caller that solves, and feeds the Solutions it holds to later solves. *)
ChainInputs ==
    {[BaseProblem EXCEPT !.coarsen = c, !.mesh = m, !.adaptive = a, !.M = mm] :
        c \in BOOLEAN, m \in {NoMesh, MeshList(<<0, 1>>)}, a \in BOOLEAN,
        mm \in 1..MaxMesh}

AsGuess(sol) == [kind |-> "solution", sol |-> sol]

(* solve(...) without initial_guess *)
SolveFirst(p) ==
    /\ frames = <<>> /\ done = NoDone
    /\ SolveBegin(p)

(* solve(..., initial_guess=sol) with the Solution the last solve returned *)
SolveFromResult(p) ==
    /\ frames = <<>> /\ done.valid /\ done.env.result # NoSolution
    /\ SolveBegin([p EXCEPT !.guess = AsGuess(done.env.result)])

(* solve(..., initial_guess=sol) with the Solution the last solve was given *)
SolveFromSameGuess(p) ==
    /\ frames = <<>> /\ done.valid /\ done.env.p.guess.kind = "solution"
    /\ SolveBegin([p EXCEPT !.guess = AsGuess(done.env.guessobj)])

NextChain ==
    \/ \E p \in ChainInputs : SolveFirst(p)
    \/ \E p \in ChainInputs : SolveFromResult(p)
    \/ \E p \in ChainInputs : SolveFromSameGuess(p)
    \/ Forget
    \/ \E iflag \in StatusCodes, n \in 1..MaxOutMesh : KernelReturn(iflag, n)
    \/ CallbackRaise

SpecChain == Init /\ [][NextChain]_vars

---------------------------------------------------------------------------
(* Properties of the re-entrancy bracket, checked under Spec.              *)

BlockSet == {Blocks[j] : j \in DOMAIN Blocks}

(* C1: when a nested (non-outermost) solve finishes, by return or by       *)
(* raise, every COMMON block holds what it held when that solve's enter    *)
(* ran, whatever the nested kernel run wrote in between.                   *)
C1_NestedSolveRestoresCommons ==
    (done.valid /\ done.nested) =>
        /\ DOMAIN done.commonsAfter = BlockSet
        /\ \A b \in BlockSet : done.commonsAfter[b] = done.commonsAtEnter[b]

(* C1 witness: a solve nested two deep has ended after its kernel run      *)
(* changed the blocks, and an outer solve is still paused.                 *)
C1_Witness ==
    /\ done.valid /\ done.nested /\ done.env.calls = 1
    /\ done.commonsAtExit # done.commonsAtEnter
    /\ Len(frames) >= 2

(* C2: every way out of solve() runs the matching exit: the depth and the  *)
(* snapshot stack after a solve are those before it, and with no solve in  *)
(* flight the depth is 0 and the stack is empty.                           *)
C2_BracketBalanced ==
    /\ done.valid =>
        /\ done.depthAfter = done.depthBefore
        /\ done.stackAfter = done.stackBefore
    /\ frames = <<>> => (colnew_depth = 0 /\ colnew_stack = <<>>)

(* C2 witness: a nested solve was left by a validation error, and another  *)
(* by an exception of a callback.                                          *)
C2_Witness ==
    /\ done.valid /\ done.nested
    /\ done.env.exc = "CallbackError"
    /\ done.depthBefore = 2

(* C3: the stack holds max(depth - 1, 0) snapshots and the depth is never  *)
(* negative; the snapshot of the i-th solve in flight is a copy of all     *)
(* blocks as they were when it entered; the outermost enter pushes nothing *)
(* and the outermost exit writes nothing to the blocks.                    *)
C3_StackTracksDepth ==
    /\ colnew_depth >= 0
    /\ colnew_depth = Len(frames)
    /\ Len(colnew_stack) = IF colnew_depth >= 1 THEN colnew_depth - 1 ELSE 0
    /\ \A i \in 2..Len(frames) :
          /\ DOMAIN colnew_stack[i - 1] = DOMAIN Blocks
          /\ \A j \in DOMAIN Blocks :
                colnew_stack[i - 1][j] = frames[i].enterCommons[Blocks[j]]
    /\ (done.valid /\ ~done.nested) =>
          /\ done.stackBefore = <<>> /\ done.stackAfter = <<>>
          /\ done.commonsAfter = done.commonsAtExit

(* C3 witness: solves are nested to the bound, after the blocks changed    *)
(* between the enters.                                                     *)
C3_Witness ==
    /\ Len(frames) = MaxDepth
    /\ Len(colnew_stack) = MaxDepth - 1
    /\ colnew_stack[1] # colnew_stack[2]

---------------------------------------------------------------------------
(* Properties of one solve(), checked under SpecSolve.                     *)

SectionIndex(name) == CHOOSE i \in DOMAIN Pipeline : Pipeline[i] = name

(* the _colnew_solve() calls that have called the kernel *)
CalledKernel == {frames[i].env : i \in DOMAIN frames}
                \cup (IF done.valid /\ done.env.calls >= 1 THEN {done.env} ELSE {})

(* the class of the exceptions the input checks raise (line 384 and on)    *)
ValidationError == "ValueError"

(* C4: the kernel status decides the outcome: 1 gives a Solution, 0, -1,   *)
(* -2 and -3 raise four different exceptions, anything else the generic    *)
(* error; the five error conditions are pairwise distinguishable, the one  *)
(* for -3 also from an input validation error, and only status 1 gives a   *)
(* Solution.                                                               *)
C4_StatusDeterminesOutcome ==
    (done.valid /\ done.env.pos >= SectionIndex("status")) =>
        LET f == done.env.iflag
            x == done.env.exc
        IN  /\ f = 1 => (x = "" /\ done.env.result # NoSolution)
            /\ f = 0 => x = "SingularCollocationMatrix"
            /\ f = -1 => x = "TooManySubintervals"
            /\ f = -2 => x = "NoConvergence"
            /\ f = -3 => x \notin {"", "SingularCollocationMatrix",
                                   "TooManySubintervals", "NoConvergence",
                                   "RuntimeError", ValidationError}
            /\ f \notin {1, 0, -1, -2, -3} => x = "RuntimeError"
            /\ done.env.result # NoSolution => f = 1

(* C5: a solve whose boundary_points (of length mstar) are not ascending   *)
(* as given, or not all within [left, right], never reaches the kernel.    *)
C5_BoundaryPointsValidated ==
    \A e \in CalledKernel :
        /\ IsAscending(e.p.bp.v)
        /\ \A i \in DOMAIN e.p.bp.v :
              e.p.bp.v[i] >= e.left /\ e.p.bp.v[i] <= e.right

(* C6: solve() leaves the objects of the caller as they were given: the    *)
(* same elements in the same order, during and after the call.             *)
C6_CallerInputsUnchanged ==
    /\ \A i \in DOMAIN frames :
          /\ frames[i].env.bp = frames[i].env.p.bp
          /\ frames[i].env.tolobj = frames[i].env.p.tol
    /\ done.valid =>
          /\ done.env.bp = done.env.p.bp
          /\ done.env.tolobj = done.env.p.tol

(* the messages of the input checks of _colnew_solve, lines 378-542 *)
ValidationMessages ==
    {"Invalid value for degrees", "Invalid value for degrees: no equations",
     "Too many equations", "Too many unknown variables",
     "Invalid number of collocation points",
     "Invalid number of boundary points",
     "Invalid ordering of boundary points",
     "Some boundary points outside range [left, right]",
     "Invalid number of tolerances",
     "Initial mesh and guess both specified: cannot coarsen",
     "Unknown initial_guess",
     "Cannot disable mesh selection when no initial_mesh given"}

(* C7: one solve() calls the kernel at most once, and every input check    *)
(* that fails does so before the kernel call: a solve that ended with a    *)
(* validation error has not called the kernel.                             *)
C7_ValidationBeforeKernel ==
    /\ \A i \in DOMAIN frames : frames[i].env.calls = 1
    /\ done.valid =>
          /\ done.env.calls <= 1
          /\ (done.env.exc = ValidationError
              /\ done.env.why \in ValidationMessages) => done.env.calls = 0

(* C7 witness: the last of the checks, the one for a missing mesh, failed  *)
C7_Witness ==
    /\ done.valid
    /\ done.env.exc = ValidationError
    /\ done.env.why = "Cannot disable mesh selection when no initial_mesh given"
    /\ done.env.pos = SectionIndex("mesh")
    /\ done.env.calls = 0

(* C8: the buffers have the sizes of the formulas, which are not negative, *)
(* grow strictly with maximum_mesh_size, and are the lengths the           *)
(* configuration vector reports to the kernel.                             *)
C8_WorkspaceSizesReported ==
    \A e \in CalledKernel :
        LET M == e.p.M
            k == e.colloc
            kd == k * e.ncomp
            kdm == kd + e.mstar
            nsizei == 3 + kdm
            nsizef == 4 + 3 * e.mstar + (5 + kd) * kdm + 2 * e.mstar * 2 * e.mstar
            bigger == WorkspaceSizes(e.ncomp, e.mstar, k, M + 1)
        IN  /\ M >= 0
            /\ e.ispace.len = Size(M, nsizei)
            /\ e.fspace.len = Size(M, nsizef)
            /\ bigger.nispace.unit = nsizei /\ bigger.nispace.m > M /\ nsizei > 0
            /\ bigger.nfspace.unit = nsizef /\ bigger.nfspace.m > M /\ nsizef > 0
            /\ SizeFits(e.fspace.len) /\ e.ipar[5] = SizeVal(e.fspace.len)
            /\ SizeFits(e.ispace.len) /\ e.ipar[6] = SizeVal(e.ispace.len)

(* C9: the buffers are sized with the collocation count of the solve, a    *)
(* number not below max(degrees), never with the placeholder of an unset   *)
(* collocation_points.                                                     *)
C9_SizedWithCollocationCount ==
    \A e \in CalledKernel :
        /\ e.k >= SeqMax(e.p.degrees)
        /\ e.ispace.len = WorkspaceSizes(e.ncomp, e.mstar, e.k, e.p.M).nispace
        /\ e.fspace.len = WorkspaceSizes(e.ncomp, e.mstar, e.k, e.p.M).nfspace

(* the tolerances as the caller gave them; unset means all zero (line 406) *)
GivenTolerances(e) ==
    IF IsNone(e.p.tol) THEN Repeat(0, e.mstar) ELSE e.p.tol[1].v

(* what the kernel is given when the components in active are the ones    *)
(* with a tolerance check: ltol, tol and ipar[3]                           *)
ActiveTolerances(e, active) ==
    /\ \A j \in 1..(Len(e.ltol) - 1) : e.ltol[j] < e.ltol[j + 1]
    /\ Range(e.ltol) = active
    /\ Len(e.tolv) = Len(e.ltol)
    /\ \A j \in DOMAIN e.ltol : e.tolv[j] = GivenTolerances(e)[e.ltol[j]]
    /\ e.ipar[4] = Len(e.ltol)

(* C10 as stated: the kernel gets the ascending 1-based indices of the     *)
(* tolerances that are not 0, with their values, and their count.          *)
C10_NonZeroTolerancesActive ==
    \A e \in CalledKernel :
        ActiveTolerances(e, {i \in DOMAIN GivenTolerances(e) :
                                 GivenTolerances(e)[i] # 0})

(* C10 as amended: the kernel gets the ascending 1-based indices of the    *)
(* tolerances greater than 0, with their values in that order, and their   *)
(* count; entries that are 0 or negative are dropped.                      *)
C10_PositiveTolerancesActive ==
    \A e \in CalledKernel :
        ActiveTolerances(e, {i \in DOMAIN GivenTolerances(e) :
                                 GivenTolerances(e)[i] > 0})

(* C10 witness: of three tolerances, a negative, a zero and a positive     *)
(* one, the kernel was given the positive one alone.                       *)
C10_Witness ==
    \E e \in CalledKernel :
        /\ GivenTolerances(e) = <<-1, 0, 2>>
        /\ e.ltol = <<3>> /\ e.tolv = <<2>> /\ e.ipar[4] = 1

(* the extra_fixed_points as the caller gave them; unset means none *)
GivenExtra(e) == IF IsNone(e.p.extra) THEN <<>> ELSE e.p.extra[1]

(* what the kernel is given when pts is the set of fixed mesh points:      *)
(* fixpnt and ipar[10]; np.array([0]) stands for an empty fixpnt           *)
FixedPointsAre(e, pts) ==
    /\ e.ipar[11] = Cardinality(pts)
    /\ IF pts = {}
       THEN e.fixpnt = <<0>>
       ELSE /\ Len(e.fixpnt) = Cardinality(pts)
            /\ Range(e.fixpnt) = pts
            /\ \A j \in 1..(Len(e.fixpnt) - 1) : e.fixpnt[j] < e.fixpnt[j + 1]

(* C11 as stated: the fixed mesh points are the ascending, duplicate-free  *)
(* union of boundary_points and extra_fixed_points without the two         *)
(* endpoints left and right, no other point dropped, and the count in the  *)
(* configuration vector is their number, also when there are none.         *)
C11_UnionWithoutEndpoints ==
    \A e \in CalledKernel :
        FixedPointsAre(e, (Range(e.p.bp.v) \cup Range(GivenExtra(e)))
                          \ {e.left, e.right})

(* C11 as amended: the fixed mesh points are the ascending, duplicate-free *)
(* points of the union that lie strictly between left and right; the       *)
(* endpoints and every point outside [left, right] are dropped, and the    *)
(* count in the configuration vector is the number of points kept.         *)
C11_UnionStrictlyInside ==
    \A e \in CalledKernel :
        FixedPointsAre(e, {x \in Range(e.p.bp.v) \cup Range(GivenExtra(e)) :
                              x > e.left /\ x < e.right})

(* C11 witness: of the extra points 1 and -1 on the domain [0, 2], the     *)
(* kernel was given the inner one alone.                                   *)
C11_Witness ==
    \E e \in CalledKernel :
        /\ e.p.bp.v = <<0, 2>> /\ GivenExtra(e) = <<1, -1>>
        /\ e.left = 0 /\ e.right = 2
        /\ e.fixpnt = <<1>> /\ e.ipar[11] = 1

(* the initial-condition mode of a call, from initial_guess and            *)
(* initial_mesh as the caller gave them                                    *)
Mode(p) ==
    IF p.guess.kind = "none" THEN "cold"
    ELSE IF p.guess.kind = "callable" THEN "guess"
    ELSE IF p.guess.kind = "solution"
    THEN IF p.mesh.kind = "none" THEN "continue"
         ELSE IF p.mesh.kind = "list" THEN "continue on mesh"
         ELSE "invalid"
    ELSE "invalid"

(* C12: a call that reaches the kernel is in exactly one of the four       *)
(* initial-condition modes, and the initial-guess flag ipar[8] follows     *)
(* from the mode: cold start 0 (with 10 subintervals when no initial_mesh  *)
(* is given), guess function 1, continuation 2 without and 3 with          *)
(* coarsening and the subinterval count of the prior Solution,             *)
(* continuation on an explicit mesh 4 with len(mesh) - 1 subintervals.  A  *)
(* prior Solution is never used as guess function, and any other           *)
(* initial_guess ends in a validation error before the kernel.             *)
C12_GuessFlagFollowsMode ==
    /\ \A e \in CalledKernel :
          LET p == e.p
              m == Mode(p)
          IN  /\ m \in {"cold", "guess", "continue", "continue on mesh"}
              /\ m = "cold" =>
                    /\ e.ipar[9] = 0
                    /\ p.mesh.kind = "none" => e.ipar[3] = 10
                    /\ p.mesh.kind = "count" => e.ipar[3] = p.mesh.n
              /\ m = "guess" =>
                    e.ipar[9] = 1 /\ e.guess_func = "initial_guess"
              /\ m = "continue" =>
                    /\ e.ipar[9] = IF p.coarsen THEN 3 ELSE 2
                    /\ e.ipar[3] = p.guess.sol.ispace[1]
                    /\ e.guess_func = "dummy_guess"
              /\ m = "continue on mesh" =>
                    /\ e.ipar[9] = 4
                    /\ e.ipar[3] = Len(p.mesh.v) - 1
                    /\ e.guess_func = "dummy_guess"
    /\ (done.valid /\ done.env.p.guess.kind = "other"
        /\ done.env.pos >= SectionIndex("guess")) =>
          /\ done.env.exc = ValidationError
          /\ done.env.why = "Unknown initial_guess"
          /\ done.env.calls = 0

(* C12 witness: a continuation from a prior Solution on an explicit mesh   *)
(* of three points is in the kernel with flag 4 and two subintervals.      *)
C12_Witness ==
    \E e \in CalledKernel :
        /\ e.p.guess.kind = "solution" /\ e.p.mesh = MeshList(<<0, 1, 2>>)
        /\ e.ipar[9] = 4 /\ e.ipar[3] = 2

(* C13 as stated: a call with coarsen_initial_guess_mesh true and an       *)
(* explicit initial_mesh never reaches the kernel, whatever the            *)
(* initial_guess.                                                          *)
C13_CoarsenExcludesMesh ==
    \A e \in CalledKernel : ~(e.p.coarsen /\ e.p.mesh.kind = "list")

(* C13 as amended: when initial_guess is a prior Solution, a call with     *)
(* coarsen_initial_guess_mesh true and an initial_mesh fails with a        *)
(* validation error before the kernel, so a continuation on a mesh of the  *)
(* caller reaches the kernel only with coarsening off; without a prior     *)
(* Solution the coarsening flag is not looked at.                          *)
C13_CoarsenExcludesMeshOnContinuation ==
    /\ \A e \in CalledKernel :
          (e.p.guess.kind = "solution" /\ e.p.mesh.kind # "none")
              => ~e.p.coarsen
    /\ (done.valid /\ done.env.p.guess.kind = "solution"
        /\ done.env.p.mesh.kind # "none" /\ done.env.p.coarsen
        /\ done.env.pos >= SectionIndex("guess")) =>
          /\ done.env.exc = ValidationError
          /\ done.env.why
                = "Initial mesh and guess both specified: cannot coarsen"
          /\ done.env.calls = 0

(* C13 witness: a continuation on an explicit mesh with coarsening on has  *)
(* ended with the validation error, the kernel not called.                 *)
C13_Witness ==
    /\ done.valid
    /\ done.env.p.guess.kind = "solution"
    /\ done.env.p.mesh = MeshList(<<0, 1>>)
    /\ done.env.p.coarsen
    /\ done.env.exc = ValidationError
    /\ done.env.why = "Initial mesh and guess both specified: cannot coarsen"
    /\ done.env.calls = 0

(* the mesh type flag ipar[7] for the initial_mesh and                     *)
(* adaptive_mesh_selection of a call                                       *)
MeshType(p) ==
    IF p.mesh.kind = "list" THEN (IF p.adaptive THEN 1 ELSE 2) ELSE 0

(* C14: with adaptive_mesh_selection false and no initial_mesh of concrete *)
(* points (none, or a point count), solve() raises a validation error      *)
(* before the kernel, for every initial_guess; the kernel runs with mesh   *)
(* type 2 only with an explicit mesh at the start of the float workspace,  *)
(* with type 1 for an explicit mesh and adaptation on, with 0 otherwise.   *)
C14_NonAdaptiveNeedsMesh ==
    /\ (done.valid /\ ~done.env.p.adaptive
        /\ done.env.p.mesh.kind \in {"none", "count"}) =>
          done.env.exc = ValidationError /\ done.env.calls = 0
    /\ \A e \in CalledKernel : e.ipar[8] = MeshType(e.p)
    /\ \A i \in DOMAIN frames :
          LET e == frames[i].env
          IN  e.ipar[8] # 0 =>
                 /\ e.p.mesh.kind = "list"
                 /\ Take(e.fspace.data, Len(e.p.mesh.v)) = e.p.mesh.v

---------------------------------------------------------------------------
(* Properties of Solutions fed to later solves, checked under SpecChain.   *)

===========================================================================
